---- MODULE Spec2Model ----
(***************************************************************************)
(* TradingViewScraper (the session registry, the per-session poll loop and *)
(* the listener table) together with the server that publishes its price   *)
(* updates.  The repository holds two servers over the same scraper class: *)
(* the SSE server (sseConnections, broadcastPriceUpdate) and the           *)
(* ConnectRPC server (streamPrices with its updateQueue); load.server says *)
(* which of the two programs is running.                                   *)
(*                                                                         *)
(* The program runs on one JavaScript event loop.  Every action below is   *)
(* one run-to-completion step: the code from one resolved await (or timer  *)
(* or request event) up to the next await.  An API call is numbered in the *)
(* order in which it starts; an addTicker call that reaches newPage() owns *)
(* the page with its own number.                                           *)
(***************************************************************************)
EXTENDS Integers, Sequences, FiniteSets, TLC

\* ---------------------------------------------------------------- bounds
MaxCalls == 3        \* addTicker / removeTicker calls made in one run
MaxSubs == 2         \* stream clients that connect in one run
MaxPending == 2      \* API calls suspended at an await at the same time
MaxClock == 2        \* notifyPriceUpdate calls (timestamps handed out) in one run
MaxInflight == 1     \* extractions of one interval that overlap in time
MaxListeners == 2    \* broadcast listeners one ticker's callback set is let grow to
MaxLists == 1        \* GET /api/tickers requests made in one run
MaxText == 3         \* length of the texts enumerated for cleanPrice / isValidPrice
MaxSelectors == 2    \* entries of commonSelectors that are probed (the code lists 6)
MaxHandlers == 2     \* callbacks that a caller of the class registers in one run
MaxOverlap == 2      \* interval callbacks of one page that are followed at a time
MaxShows == 3        \* contents that a page shows one after the other in one run
MaxOffs == 4         \* removals of a callback or connection asked for in one run

\* ------------------------------------------------------ program constants
maxRetries == 5

Symbols == {"BTCUSD", "ETHUSD"}
NoPrice == "null"
Prices == {"100.00", "100.01"}
Calls == 1..MaxCalls
Subs == 1..MaxSubs
NoPage == 0

\* What the clients of one run ask for: which server they talk to, the
\* tickers they name, and how many calls, stream clients and ticker-list
\* requests they make.
Loads ==
    { [server |-> "http", tickers |-> Symbols, calls |-> MaxCalls, subs |-> 0, lists |-> 0],
      [server |-> "http", tickers |-> {"BTCUSD"}, calls |-> MaxCalls, subs |-> MaxSubs - 1,
       lists |-> 0],
      [server |-> "http", tickers |-> {"BTCUSD"}, calls |-> MaxCalls - 1, subs |-> MaxSubs,
       lists |-> 0],
      [server |-> "rpc", tickers |-> {"ETHUSD"}, calls |-> MaxCalls - 1, subs |-> MaxSubs - 1,
       lists |-> 0],
      [server |-> "http", tickers |-> Symbols, calls |-> MaxCalls - 1, subs |-> 0,
       lists |-> MaxLists] }

VARIABLES
    load,            \* the run's clients (never changes)
    browser,         \* this.browser is set (initialize() has run)
    pages,           \* this.pages: ticker -> page (NoPage: no entry)
    priceCallbacks,  \* this.priceCallbacks: ticker -> its listeners: the number of
                     \* POST-handler closures (sse) and the streams whose
                     \* queueing closure is registered (rpc)
    sseConnections,  \* the SSE server's set of connections
    connSt,          \* each client's channel: "none", "live", "broken", "destroyed",
                     \* and "closed" once the server has seen the client go
    updateQueue,     \* each streamPrices call's updateQueue
    received,        \* each client's stream: the PriceUpdates written or yielded to it
    calls,           \* each API call: op, ticker, position, page it works on
    ncalls,          \* API calls started so far
    pageSt,          \* each page: "none", "open", "closed"
    interval,        \* the page's setInterval timer is armed
    hooked,          \* the page's 'close' listener (clearInterval) is installed
    lastPrice,       \* lastPrice of the page's startPriceMonitoring closure
    retries,         \* retries of the page's running startPriceMonitoring call
    inflight,        \* interval callbacks of the page suspended in extractPrice()
    shown,           \* what extractPrice() finds on a ticker's open page now
    clock,           \* Date.now(), advanced by every notifyPriceUpdate
    listed,          \* the GET /api/tickers responses: how many, and the last one
    probe,           \* the text or page content handed to the price extractor
    found,           \* what the extractor made of probe
    cleaning,        \* scraper.cleanup(): where it is, and the pages it has visited
    listeners,       \* the callbacks in priceCallbacks that are not a server's own:
                     \* ticker -> those a caller of the class registered, in the
                     \* order of the Set, each with the updates it was invoked with
    offs,            \* the removals asked for: how many, and the last one
    polls,           \* the page's interval callbacks under way, in the order in
                     \* which they started, each with what its extraction has read
                     \* (and from which content of the page), and the newest
                     \* content that a callback started after it has published from
    shows            \* how many contents the ticker's page has shown so far

vars == <<load, browser, pages, priceCallbacks, sseConnections, connSt, updateQueue,
          received, calls, ncalls, pageSt, interval, hooked, lastPrice, retries,
          inflight, shown, clock, listed, probe, found, cleaning, listeners, offs, polls, shows>>

NoCall == [op |-> "none", sym |-> "none", pc |-> "idle", page |-> NoPage]
NoListeners == [sse |-> 0, rpc |-> {}]

\* A text is a sequence of characters; null and a raised error are the two
\* values below, which are no texts.
NoText == <<"null">>
Throws == <<"throws">>

NoList == [n |-> 0, tickers |-> <<>>]
NoProbe == [kind |-> "none", text |-> NoText, selectors |-> <<>>, scan |-> NoText,
            fallback |-> NoText]
NotRun == [done |-> FALSE, price |-> NoText]
NoCleanup == [pc |-> "none", page |-> NoPage, swept |-> {}]
NoOff == [n |-> 0, kind |-> "none", sym |-> "none", id |-> 0]
Unread == [price |-> "unread", at |-> 0, behind |-> 0]

\* The server after construction, before any request.
Started ==
    /\ browser = FALSE
    /\ pages = [s \in Symbols |-> NoPage]
    /\ priceCallbacks = [s \in Symbols |-> NoListeners]
    /\ sseConnections = {}
    /\ connSt = [c \in Subs |-> "none"]
    /\ updateQueue = [c \in Subs |-> <<>>]
    /\ received = [c \in Subs |-> <<>>]
    /\ calls = [k \in Calls |-> NoCall]
    /\ ncalls = 0
    /\ pageSt = [k \in Calls |-> "none"]
    /\ interval = [k \in Calls |-> FALSE]
    /\ hooked = [k \in Calls |-> FALSE]
    /\ lastPrice = [k \in Calls |-> NoPrice]
    /\ retries = [k \in Calls |-> 0]
    /\ inflight = [k \in Calls |-> 0]
    /\ shown = [s \in Symbols |-> NoPrice]
    /\ clock = 0
    /\ listed = NoList
    /\ cleaning = NoCleanup
    /\ listeners = [s \in Symbols |-> <<>>]
    /\ offs = NoOff
    /\ polls = [k \in Calls |-> <<>>]
    /\ shows = [s \in Symbols |-> 0]

Init ==
    /\ load \in Loads
    /\ Started
    /\ probe = NoProbe
    /\ found = NotRun

\* ------------------------------------------------------------- helpers

Returned(k) == calls[k].pc \in {"retTrue", "retFalse"}
Pending == {k \in Calls : calls[k].pc \notin {"idle", "retTrue", "retFalse"}}
Idle == Pending = {}
TickerOf(k) == calls[k].sym
Connected == {c \in Subs : connSt[c] # "none"}
MayCall == ncalls < load.calls /\ Cardinality(Pending) < MaxPending
MayConnect(c) ==
    /\ Cardinality(Connected) < load.subs
    /\ connSt[c] = "none"
    /\ \A d \in Subs : d < c => connSt[d] # "none"
OpenPages(s) == {k \in Calls : pageSt[k] = "open" /\ TickerOf(k) = s}

\* extractPrice(): a closed page makes every strategy raise, which the
\* catch turns into null; an open page yields what it shows.
extractPrice(k) == IF pageSt[k] = "open" THEN shown[TickerOf(k)] ELSE NoPrice

PriceData(s, p) == [ticker |-> s, price |-> p, timestamp |-> clock + 1]

\* broadcastPriceUpdate without its deadConnections clean-up.
broadcastConnections_NoCleanUp(S) == S

\* broadcastPriceUpdate: one write per connection that is not destroyed; a
\* destroyed connection or one whose write raises is dropped from the set.
broadcastConnections(S) == {c \in S : connSt[c] = "live"}
broadcastReceived(S, R, data) ==
    [c \in Subs |-> IF c \in S /\ connSt[c] = "live" THEN Append(R[c], data) ELSE R[c]]

\* callbacks.forEach over the n POST-handler closures of a ticker: each one
\* runs broadcastPriceUpdate(data).
RECURSIVE notifyReceived(_, _, _, _)
notifyReceived(n, S, R, data) ==
    IF n = 0 THEN R
    ELSE notifyReceived(n - 1, broadcastConnections(S), broadcastReceived(S, R, data), data)

notifyConnections(n, S) == IF n = 0 THEN S ELSE broadcastConnections(S)

\* callbacks.forEach over the streamPrices closures of a ticker: each one
\* pushes the update on its stream's updateQueue.
notifyQueued(L, Q, data) == [c \in Subs |-> IF c \in L THEN Append(Q[c], data) ELSE Q[c]]

\* callbacks.forEach over the callbacks of a caller: they are invoked in the
\* order of the Set; one that raises ends the forEach, and the error leaves
\* notifyPriceUpdate.
FirstRaiser(L) ==
    IF \E i \in DOMAIN L : L[i].raises
    THEN CHOOSE i \in DOMAIN L : L[i].raises /\ \A j \in 1..(i - 1) : ~L[j].raises
    ELSE Len(L)
notifyInvoked(L, data) ==
    [i \in DOMAIN L |->
        IF i <= FirstRaiser(L) THEN [L[i] EXCEPT !.heard = Append(@, data)] ELSE L[i]]
notifyRaises(s) == \E i \in DOMAIN listeners[s] : listeners[s][i].raises

notifyPriceUpdate(s, p) ==
    /\ clock < MaxClock
    /\ clock' = clock + 1
    /\ received' = notifyReceived(priceCallbacks[s].sse, sseConnections, received, PriceData(s, p))
    /\ sseConnections' = notifyConnections(priceCallbacks[s].sse, sseConnections)
    /\ updateQueue' = notifyQueued(priceCallbacks[s].rpc, updateQueue, PriceData(s, p))
    /\ listeners' = [listeners EXCEPT ![s] = notifyInvoked(@, PriceData(s, p))]

NoNotify == UNCHANGED <<clock, received, sseConnections, updateQueue, listeners>>

\* onPriceUpdate(ticker, callback) with a fresh closure that broadcasts.
onPriceUpdate(s) == [priceCallbacks EXCEPT ![s].sse = @ + 1]

\* The POST handler registers its listener when addTicker has returned
\* true; the ConnectRPC addTicker route registers none.
handlerListens(s) ==
    IF load.server = "http"
    THEN priceCallbacks[s].sse < MaxListeners /\ priceCallbacks' = onPriceUpdate(s)
    ELSE UNCHANGED priceCallbacks

SetCall(k, pc) == calls' = [calls EXCEPT ![k].pc = pc]

\* A ticker none of whose pages is open shows nothing.
shownWithout(pg) ==
    IF OpenPages(TickerOf(pg)) \ {pg} = {}
    THEN [shown EXCEPT ![TickerOf(pg)] = NoPrice]
    ELSE shown

\* ------------------------------------------------- the price extractor

\* Texts are written over these characters: "$" stands for the currency
\* glyphs, "x" for every character that is neither a digit nor a separator;
\* there is no "e", so parseFloat meets no exponent.
Chars == {"$", "-", ",", ".", "0", "1", "5", " ", "x"}
Digits == <<"0", "1", "2", "3", "4", "5", "6", "7", "8", "9">>
IsDigit(c) == \E i \in 1..Len(Digits) : Digits[i] = c
DigitVal(c) == (CHOOSE i \in 1..Len(Digits) : Digits[i] = c) - 1
IsSpace(c) == c = " "
NotCurrency(c) == c # "$"
IsNumeric(c) == IsDigit(c) \/ c = "." \/ c = ","
NotComma(c) == c # ","

RECURSIVE trimStart(_)
trimStart(t) == IF t # <<>> /\ IsSpace(Head(t)) THEN trimStart(Tail(t)) ELSE t
RECURSIVE trimEnd(_)
trimEnd(t) ==
    IF t # <<>> /\ IsSpace(t[Len(t)]) THEN trimEnd(SubSeq(t, 1, Len(t) - 1)) ELSE t
trim(t) == trimEnd(trimStart(t))
includes(t, c) == \E i \in 1..Len(t) : t[i] = c

\* cleanPrice(text): trim, drop the currency glyphs, drop what is not a
\* digit, "." or ",", then drop the commas.
cleanPrice(text) ==
    IF text = <<>> THEN NoText
    ELSE LET cleaned == SelectSeq(SelectSeq(trim(text), NotCurrency), IsNumeric) IN
         IF includes(cleaned, ",") THEN SelectSeq(cleaned, NotComma) ELSE cleaned

RECURSIVE digitsPrefix(_)
digitsPrefix(t) ==
    IF t # <<>> /\ IsDigit(Head(t)) THEN <<Head(t)>> \o digitsPrefix(Tail(t)) ELSE <<>>

\* parseFloat(str): leading white space, a sign, then the longest prefix
\* that is a decimal literal; NaN when that prefix has no digit.  The
\* number is kept as its sign and its digits before and after the point.
parseFloat(str) ==
    LET s == trimStart(str)
        signed == s # <<>> /\ (Head(s) = "-" \/ Head(s) = "+")
        body == IF signed THEN Tail(s) ELSE s
        int == digitsPrefix(body)
        rest == SubSeq(body, Len(int) + 1, Len(body))
        frac == IF rest # <<>> /\ Head(rest) = "." THEN digitsPrefix(Tail(rest)) ELSE <<>>
    IN [nan |-> int = <<>> /\ frac = <<>>,
        neg |-> signed /\ Head(s) = "-",
        int |-> int,
        frac |-> frac]

RECURSIVE dropZeros(_)
dropZeros(d) == IF d # <<>> /\ Head(d) = "0" THEN dropZeros(Tail(d)) ELSE d
NonZero(d) == \E i \in 1..Len(d) : d[i] # "0"
FracDigit(d, i) == IF i <= Len(d) THEN DigitVal(d[i]) ELSE 0
Thousandths(d) == 100 * FracDigit(d, 1) + 10 * FracDigit(d, 2) + FracDigit(d, 3)

\* num > 0.001
aboveThousandth(num) ==
    /\ ~num.neg
    /\ \/ NonZero(num.int)
       \/ Thousandths(num.frac) > 1
       \/ Thousandths(num.frac) = 1 /\ NonZero(SubSeq(num.frac, 4, Len(num.frac)))

\* num < 1000000
belowMillion(num) == num.neg \/ Len(dropZeros(num.int)) <= 6

\* isValidPrice(price)
isValidPrice(price) ==
    LET num == parseFloat(price) IN
    ~num.nan /\ aboveThousandth(num) /\ belowMillion(num)

\* `price && this.isValidPrice(price)`
evaluated(price) == price # NoText /\ price # <<>> /\ isValidPrice(price)

\* Strategy 1, one selector: page.$ or textContent raises (caught, next
\* selector), finds nothing, or yields a text that is cleaned and tested.
selectorPrice(outcome) ==
    IF outcome = Throws \/ outcome = NoText \/ outcome = <<>> THEN NoText
    ELSE IF evaluated(cleanPrice(outcome)) THEN cleanPrice(outcome) ELSE NoText

RECURSIVE firstSelector(_)
firstSelector(selectors) ==
    IF selectors = <<>> THEN NoText
    ELSE IF selectorPrice(Head(selectors)) # NoText THEN selectorPrice(Head(selectors))
    ELSE firstSelector(Tail(selectors))

\* extractPrice without its outer try/catch.
extractPriceOf_NoCatch(page) ==
    IF firstSelector(page.selectors) # NoText THEN firstSelector(page.selectors)
    ELSE IF page.scan = Throws THEN Throws
    ELSE IF evaluated(page.scan) THEN page.scan
    ELSE IF page.fallback = Throws THEN Throws
    ELSE IF evaluated(page.fallback) THEN page.fallback
    ELSE NoText

\* extractPrice() on a page given by what each selector and each of the two
\* page.evaluate calls comes back with.
extractPriceOf(page) ==
    IF firstSelector(page.selectors) # NoText THEN firstSelector(page.selectors)
    ELSE IF page.scan = Throws THEN NoText
    ELSE IF evaluated(page.scan) THEN page.scan
    ELSE IF page.fallback = Throws THEN NoText
    ELSE IF evaluated(page.fallback) THEN page.fallback
    ELSE NoText

\* The texts and pages the extractor is tried on.
RECURSIVE TextsOfLength(_)
TextsOfLength(n) ==
    IF n = 0 THEN {<<>>}
    ELSE {<<c>> \o t : c \in Chars, t \in TextsOfLength(n - 1)}
Examples ==
    { <<"$", "1", ",", "2", "3", "4", ".", "5", "6">>,
      <<"-", "5">>,
      <<"2", "0", "0", "0", "0", "0", "0">>,
      <<"1", "2", "3", "4", ".", "5", "6">>,
      <<"0", ",", "5", "0", "0">>,
      <<"0", ".", "0", "0", "1">>,
      <<"0", ".", "0", "0", "1", "1">> }
Texts == Examples \cup UNION {TextsOfLength(n) : n \in 0..MaxText}
Outcomes == {Throws, NoText, <<>>} \cup Examples
TextProbes ==
    [kind : {"text"}, text : Texts, selectors : {<<>>}, scan : {NoText}, fallback : {NoText}]
PageProbes ==
    [kind : {"page"}, text : {NoText}, selectors : [1..MaxSelectors -> Outcomes],
     scan : Outcomes, fallback : Outcomes]

\* ------------------------------------------------------------- actions

initialize ==
    /\ ~browser
    /\ cleaning.pc = "none"
    /\ browser' = TRUE
    /\ UNCHANGED <<load, polls, shows, listeners, offs, cleaning, listed, probe, found, pages, priceCallbacks, sseConnections, connSt, updateQueue,
                   received, calls, ncalls, pageSt, interval, hooked, lastPrice,
                   retries, inflight, shown, clock>>

\* addTicker without its pages.has(ticker) test.
addTicker_NoHasTest(s) ==
    /\ MayCall
    /\ LET k == ncalls + 1 IN
       /\ ncalls' = k
       /\ IF ~browser THEN
             /\ calls' = [calls EXCEPT ![k] = [op |-> "add", sym |-> s, pc |-> "retFalse", page |-> NoPage]]
             /\ UNCHANGED pageSt
          ELSE
             /\ calls' = [calls EXCEPT ![k] = [op |-> "add", sym |-> s, pc |-> "nav", page |-> k]]
             /\ pageSt' = [pageSt EXCEPT ![k] = "open"]
    /\ UNCHANGED <<load, polls, shows, listeners, offs, cleaning, listed, probe, found, browser, pages, priceCallbacks, sseConnections, connSt,
                   updateQueue, received, interval, hooked, lastPrice, retries,
                   inflight, shown, clock>>

\* addTicker(s) up to its first await (with the handler's listener when it
\* returns at once).
addTicker(s) ==
    /\ MayCall
    /\ LET k == ncalls + 1 IN
       /\ ncalls' = k
       /\ IF ~browser THEN
             /\ calls' = [calls EXCEPT ![k] = [op |-> "add", sym |-> s, pc |-> "retFalse", page |-> NoPage]]
             /\ UNCHANGED <<priceCallbacks, pageSt>>
          ELSE IF pages[s] # NoPage THEN
             /\ calls' = [calls EXCEPT ![k] = [op |-> "add", sym |-> s, pc |-> "retTrue", page |-> NoPage]]
             /\ handlerListens(s)
             /\ UNCHANGED pageSt
          ELSE
             /\ calls' = [calls EXCEPT ![k] = [op |-> "add", sym |-> s, pc |-> "nav", page |-> k]]
             /\ pageSt' = [pageSt EXCEPT ![k] = "open"]
             /\ UNCHANGED priceCallbacks
    /\ UNCHANGED <<load, polls, shows, listeners, offs, cleaning, listed, probe, found, browser, pages, sseConnections, connSt, updateQueue, received,
                   interval, hooked, lastPrice, retries, inflight, shown, clock>>

\* setViewportSize / goto / evaluate resolve, or one of them raises and the
\* catch of addTicker returns false.
addNavigated(k) ==
    /\ calls[k].pc = "nav"
    /\ \E ok \in BOOLEAN : SetCall(k, IF ok /\ pageSt[k] = "open" THEN "settle" ELSE "retFalse")
    /\ UNCHANGED <<load, polls, shows, listeners, offs, cleaning, listed, probe, found, browser, pages, priceCallbacks, sseConnections, connSt,
                   updateQueue, received, ncalls, pageSt, interval, hooked, lastPrice,
                   retries, inflight, shown, clock>>

\* waitForTimeout(8000) resolves (raises on a closed page).
addSettled(k) ==
    /\ calls[k].pc = "settle"
    /\ SetCall(k, IF pageSt[k] = "open" THEN "ready" ELSE "retFalse")
    /\ UNCHANGED <<load, polls, shows, listeners, offs, cleaning, listed, probe, found, browser, pages, priceCallbacks, sseConnections, connSt,
                   updateQueue, received, ncalls, pageSt, interval, hooked, lastPrice,
                   retries, inflight, shown, clock>>

\* waitForPriceContent timed out: the page is closed and false returned.
addNoContent(k) ==
    /\ calls[k].pc = "ready"
    /\ pageSt' = [pageSt EXCEPT ![k] = "closed"]
    /\ shown' = shownWithout(k)
    /\ SetCall(k, "retFalse")
    /\ UNCHANGED <<load, polls, shows, listeners, offs, cleaning, listed, probe, found, browser, pages, priceCallbacks, sseConnections, connSt,
                   updateQueue, received, ncalls, interval, hooked, lastPrice, retries,
                   inflight, clock>>

\* startPriceMonitoring with lastPrice taken over from the page that the
\* ticker had before.
addContent_KeepsLastPrice(k) ==
    /\ calls[k].pc = "ready"
    /\ pageSt[k] = "open"
    /\ pages' = [pages EXCEPT ![TickerOf(k)] = k]
    /\ lastPrice' = [lastPrice EXCEPT ![k] =
          IF \E j \in 1..(k - 1) : TickerOf(j) = TickerOf(k) /\ lastPrice[j] # NoPrice
          THEN lastPrice[CHOOSE j \in 1..(k - 1) :
                            TickerOf(j) = TickerOf(k) /\ lastPrice[j] # NoPrice]
          ELSE @]
    /\ SetCall(k, "boot")
    /\ UNCHANGED <<load, polls, shows, listeners, offs, cleaning, listed, probe, found,
                   browser, priceCallbacks, sseConnections, connSt, updateQueue,
                   received, ncalls, pageSt, interval, hooked, retries, inflight,
                   shown, clock>>

\* waitForPriceContent found content: pages.set, and startPriceMonitoring
\* runs up to its first extractPrice().
addContent(k) ==
    /\ calls[k].pc = "ready"
    /\ pageSt[k] = "open"
    /\ pages' = [pages EXCEPT ![TickerOf(k)] = k]
    /\ SetCall(k, "boot")
    /\ UNCHANGED <<load, polls, shows, listeners, offs, cleaning, listed, probe, found, browser, priceCallbacks, sseConnections, connSt, updateQueue,
                   received, ncalls, pageSt, interval, hooked, lastPrice, retries,
                   inflight, shown, clock>>

\* The end of startPriceMonitoring: setInterval, page.on('close'), then
\* addTicker returns true and the handler takes over.  A 'close' listener
\* put on a page that is already closed never runs.
monitoringStarted(k) ==
    /\ interval' = [interval EXCEPT ![k] = TRUE]
    /\ hooked' = [hooked EXCEPT ![k] = (pageSt[k] = "open")]
    /\ retries' = [retries EXCEPT ![k] = 0]
    /\ handlerListens(TickerOf(k))
    /\ SetCall(k, "retTrue")

\* A bootstrap extractPrice() resolves.  An error that a callback lets out
\* of notifyPriceUpdate leaves startPriceMonitoring and is caught by
\* addTicker, which returns false.
addExtracted(k) ==
    /\ calls[k].pc = "boot"
    /\ LET p == extractPrice(k) IN
       IF p # NoPrice THEN
          /\ lastPrice' = [lastPrice EXCEPT ![k] = p]
          /\ notifyPriceUpdate(TickerOf(k), p)
          /\ IF notifyRaises(TickerOf(k)) THEN
                /\ SetCall(k, "retFalse")
                /\ retries' = [retries EXCEPT ![k] = 0]
                /\ UNCHANGED <<interval, hooked, priceCallbacks>>
             ELSE monitoringStarted(k)
       ELSE
          /\ retries' = [retries EXCEPT ![k] = @ + 1]
          /\ SetCall(k, "backoff")
          /\ NoNotify
          /\ UNCHANGED <<lastPrice, interval, hooked, priceCallbacks>>
    /\ UNCHANGED <<load, polls, shows, offs, cleaning, listed, probe, found, browser, pages, connSt, ncalls, pageSt, inflight, shown>>

\* The bootstrap loop with the test retries <= maxRetries.
addBackedOff_OneMore(k) ==
    /\ calls[k].pc = "backoff"
    /\ IF pageSt[k] # "open" THEN
          /\ SetCall(k, "retFalse")
          /\ retries' = [retries EXCEPT ![k] = 0]
          /\ UNCHANGED <<interval, hooked, priceCallbacks>>
       ELSE IF retries[k] <= maxRetries THEN
          /\ SetCall(k, "boot")
          /\ UNCHANGED <<interval, hooked, priceCallbacks, retries>>
       ELSE monitoringStarted(k)
    /\ UNCHANGED <<load, polls, shows, listeners, offs, cleaning, listed, probe, found, browser, pages, sseConnections, connSt,
                   updateQueue, received, ncalls, pageSt, lastPrice, inflight, shown,
                   clock>>

\* A bootstrap waitForTimeout(3000) resolves, or raises on a closed page.
addBackedOff(k) ==
    /\ calls[k].pc = "backoff"
    /\ IF pageSt[k] # "open" THEN
          /\ SetCall(k, "retFalse")
          /\ retries' = [retries EXCEPT ![k] = 0]
          /\ UNCHANGED <<interval, hooked, priceCallbacks>>
       ELSE IF retries[k] < maxRetries THEN
          /\ SetCall(k, "boot")
          /\ UNCHANGED <<interval, hooked, priceCallbacks, retries>>
       ELSE monitoringStarted(k)
    /\ UNCHANGED <<load, polls, shows, listeners, offs, cleaning, listed, probe, found, browser, pages, sseConnections, connSt, updateQueue, received,
                   ncalls, pageSt, lastPrice, inflight, shown, clock>>

\* removeTicker without its early return for a ticker it does not hold.
removeTicker_NoEarlyReturn(s) ==
    /\ MayCall
    /\ LET k == ncalls + 1 IN
       /\ ncalls' = k
       /\ calls' = [calls EXCEPT ![k] =
             [op |-> "remove", sym |-> s, pc |-> "closing", page |-> pages[s]]]
    /\ UNCHANGED <<load, polls, shows, listeners, offs, cleaning, listed, probe, found, browser, pages, priceCallbacks, sseConnections, connSt,
                   updateQueue, received, pageSt, interval, hooked, lastPrice, retries,
                   inflight, shown, clock>>

\* removeTicker(s) up to await page.close().
removeTicker(s) ==
    /\ MayCall
    /\ LET k == ncalls + 1 IN
       /\ ncalls' = k
       /\ calls' = [calls EXCEPT ![k] =
             [op |-> "remove", sym |-> s,
              pc |-> IF pages[s] = NoPage THEN "retFalse" ELSE "closing",
              page |-> pages[s]]]
    /\ UNCHANGED <<load, polls, shows, listeners, offs, cleaning, listed, probe, found, browser, pages, priceCallbacks, sseConnections, connSt,
                   updateQueue, received, pageSt, interval, hooked, lastPrice, retries,
                   inflight, shown, clock>>

\* removeTicker's clean-up with priceCallbacks.clear() in place of
\* priceCallbacks.delete(ticker).
removeClosed_ClearsAll(k) ==
    /\ calls[k].pc = "closing"
    /\ LET pg == calls[k].page IN
       /\ pageSt' = [pageSt EXCEPT ![pg] = "closed"]
       /\ interval' = [interval EXCEPT ![pg] = IF hooked[pg] /\ pageSt[pg] = "open" THEN FALSE ELSE @]
       /\ shown' = shownWithout(pg)
    /\ pages' = [pages EXCEPT ![TickerOf(k)] = NoPage]
    /\ priceCallbacks' = [s \in Symbols |-> NoListeners]
    /\ SetCall(k, "retTrue")
    /\ UNCHANGED <<load, polls, shows, listeners, offs, cleaning, listed, probe, found, browser, sseConnections, connSt,
                   updateQueue, received, ncalls, hooked, lastPrice, retries, inflight,
                   clock>>

\* page.close() resolves: the page is closed, its 'close' listener clears
\* the interval, then pages.delete and priceCallbacks.delete by ticker.
removeClosed(k) ==
    /\ calls[k].pc = "closing"
    /\ LET pg == calls[k].page IN
       /\ pageSt' = [pageSt EXCEPT ![pg] = "closed"]
       /\ interval' = [interval EXCEPT ![pg] = IF hooked[pg] /\ pageSt[pg] = "open" THEN FALSE ELSE @]
       /\ shown' = shownWithout(pg)
    /\ pages' = [pages EXCEPT ![TickerOf(k)] = NoPage]
    /\ priceCallbacks' = [priceCallbacks EXCEPT ![TickerOf(k)] = NoListeners]
    /\ SetCall(k, "retTrue")
    /\ UNCHANGED <<load, polls, shows, listeners, offs, cleaning, listed, probe, found, browser, sseConnections, connSt, updateQueue, received,
                   ncalls, hooked, lastPrice, retries, inflight, clock>>

\* An interval callback that is held back while an API call is suspended.
tick_WaitsForCalls(k) ==
    /\ Idle
    /\ interval[k]
    /\ inflight[k] < MaxInflight
    /\ inflight' = [inflight EXCEPT ![k] = @ + 1]
    /\ UNCHANGED <<load, polls, shows, listeners, offs, cleaning, listed, probe, found, browser, pages,
                   priceCallbacks, sseConnections, connSt, updateQueue, received, calls,
                   ncalls, pageSt, interval, hooked, lastPrice, retries, shown, clock>>

\* The interval fires: the callback runs up to await extractPrice().
tick(k) ==
    /\ interval[k]
    /\ inflight[k] < MaxInflight
    /\ inflight' = [inflight EXCEPT ![k] = @ + 1]
    /\ UNCHANGED <<load, polls, shows, listeners, offs, cleaning, listed, probe, found, browser, pages, priceCallbacks, sseConnections, connSt,
                   updateQueue, received, calls, ncalls, pageSt, interval, hooked,
                   lastPrice, retries, shown, clock>>

\* The interval callback's test without its comparison with lastPrice.
shouldPublish_NoCompare(k, p) == p # NoPrice

\* The interval callback's test without its test for a price at all.
shouldPublish_NoNullTest(k, p) == p # lastPrice[k]

shouldPublish(k, p) == p # NoPrice /\ p # lastPrice[k]

\* The interval callback's extractPrice() resolves.  An error that a
\* callback lets out of notifyPriceUpdate is caught and logged.
tickExtracted(k) ==
    /\ inflight[k] > 0
    /\ inflight' = [inflight EXCEPT ![k] = @ - 1]
    /\ LET p == extractPrice(k) IN
       IF shouldPublish(k, p) THEN
          /\ lastPrice' = [lastPrice EXCEPT ![k] = p]
          /\ notifyPriceUpdate(TickerOf(k), p)
       ELSE
          /\ NoNotify
          /\ UNCHANGED lastPrice
    /\ UNCHANGED <<load, polls, shows, offs, cleaning, listed, probe, found, browser, pages, priceCallbacks, connSt, calls, ncalls, pageSt,
                   interval, hooked, retries, shown>>

\* The watched page shows another price, or none that extractPrice accepts.
pageShows(s, p) ==
    /\ OpenPages(s) # {}
    /\ shown[s] # p
    /\ shown' = [shown EXCEPT ![s] = p]
    /\ UNCHANGED <<load, polls, shows, listeners, offs, cleaning, listed, probe, found, browser, pages, priceCallbacks, sseConnections, connSt,
                   updateQueue, received, calls, ncalls, pageSt, interval, hooked,
                   lastPrice, retries, inflight, clock>>

\* GET /api/prices/stream: a new connection joins sseConnections.
sseConnect(c) ==
    /\ load.server = "http"
    /\ MayConnect(c)
    /\ connSt' = [connSt EXCEPT ![c] = "live"]
    /\ sseConnections' = sseConnections \cup {c}
    /\ UNCHANGED <<load, polls, shows, listeners, offs, cleaning, listed, probe, found, browser, pages, priceCallbacks, updateQueue, received, calls,
                   ncalls, pageSt, interval, hooked, lastPrice, retries, inflight,
                   shown, clock>>

\* The client's response stops taking writes: write() raises ("broken") or
\* the response is destroyed.
sseFail(c, st) ==
    /\ load.server = "http"
    /\ connSt[c] = "live"
    /\ connSt' = [connSt EXCEPT ![c] = st]
    /\ UNCHANGED <<load, polls, shows, listeners, offs, cleaning, listed, probe, found, browser, pages, priceCallbacks, sseConnections, updateQueue,
                   received, calls, ncalls, pageSt, interval, hooked, lastPrice,
                   retries, inflight, shown, clock>>

\* sseConnections.clear() in place of delete(connection).
deleteConnection_Clear(S, c) == {}

\* sseConnections.delete(connection)
deleteConnection(S, c) == S \ {c}

\* req.on('close') / req.on('error'): the connection leaves the set.
sseClose(c) ==
    /\ load.server = "http"
    /\ connSt[c] \in {"broken", "destroyed"}
    /\ c \in sseConnections
    /\ sseConnections' = deleteConnection(sseConnections, c)
    /\ connSt' = [connSt EXCEPT ![c] = "closed"]
    /\ UNCHANGED <<load, polls, shows, listeners, offs, cleaning, listed, probe, found, browser, pages, priceCallbacks, updateQueue, received,
                   calls, ncalls, pageSt, interval, hooked, lastPrice, retries,
                   inflight, shown, clock>>

\* getActiveTickers(): the keys of this.pages.
activeTickers == {s \in Symbols : pages[s] # NoPage}

\* The tickers in ascending order of their UTF-16 code units, the order of
\* Array.prototype.sort() without a comparator.
SymbolsAscending == <<"BTCUSD", "ETHUSD">>
Rank(s) == CHOOSE i \in 1..Len(SymbolsAscending) : SymbolsAscending[i] = s

RECURSIVE insertSorted(_, _)
insertSorted(x, L) ==
    IF L = <<>> THEN <<x>>
    ELSE IF Rank(x) <= Rank(Head(L)) THEN <<x>> \o L
    ELSE <<Head(L)>> \o insertSorted(x, Tail(L))

\* Array.prototype.sort()
RECURSIVE sort(_)
sort(L) == IF L = <<>> THEN <<>> ELSE insertSorted(Head(L), sort(Tail(L)))

\* Array.from(this.pages.keys()): every key once, in the order in which the
\* entries were inserted; the order is not kept here, so any order may come.
pagesKeys ==
    {L \in [1..Cardinality(activeTickers) -> activeTickers] :
        \A s \in activeTickers : \E i \in DOMAIN L : L[i] = s}

\* getActiveTickers without its sort().
getActiveTickers_NoSort(keys) == keys

\* getActiveTickers(), given the array of keys.
getActiveTickers(keys) == sort(keys)

\* GET /api/tickers (getTickers on the ConnectRPC server): the response
\* carries the array that getActiveTickers() built.
getTickers ==
    /\ listed.n < load.lists
    /\ \E keys \in pagesKeys :
          listed' = [n |-> listed.n + 1, tickers |-> getActiveTickers(keys)]
    /\ UNCHANGED <<load, polls, shows, listeners, offs, cleaning, probe, found, browser, pages, priceCallbacks, sseConnections,
                   connSt, updateQueue, received, calls, ncalls, pageSt, interval,
                   hooked, lastPrice, retries, inflight, shown, clock>>

\* streamPrices starts: one queueing listener on every active ticker, then
\* the loop's first sleep.
streamPrices(c) ==
    /\ load.server = "rpc"
    /\ MayConnect(c)
    /\ connSt' = [connSt EXCEPT ![c] = "live"]
    /\ priceCallbacks' = [s \in Symbols |->
          IF s \in activeTickers
          THEN [priceCallbacks[s] EXCEPT !.rpc = @ \cup {c}]
          ELSE priceCallbacks[s]]
    /\ UNCHANGED <<load, polls, shows, listeners, offs, cleaning, listed, probe, found, browser, pages, sseConnections, updateQueue, received, calls,
                   ncalls, pageSt, interval, hooked, lastPrice, retries, inflight,
                   shown, clock>>

\* updateQueue.pop() in place of shift().
queueShift_Pop(Q) == [head |-> Q[Len(Q)], rest |-> SubSeq(Q, 1, Len(Q) - 1)]

\* updateQueue.shift()
queueShift(Q) == [head |-> Head(Q), rest |-> Tail(Q)]

\* One turn of the streamPrices loop that finds the queue non-empty: the
\* update taken off the queue is yielded to the client.
streamYield(c) ==
    /\ load.server = "rpc"
    /\ connSt[c] = "live"
    /\ updateQueue[c] # <<>>
    /\ LET q == queueShift(updateQueue[c]) IN
       /\ updateQueue' = [updateQueue EXCEPT ![c] = q.rest]
       /\ received' = [received EXCEPT ![c] = Append(@, q.head)]
    /\ UNCHANGED <<load, polls, shows, listeners, offs, cleaning, listed, probe, found, browser, pages, priceCallbacks, sseConnections, connSt, calls,
                   ncalls, pageSt, interval, hooked, lastPrice, retries, inflight,
                   shown, clock>>

\* The client of a streamPrices call goes away: the generator is ended at
\* the yield or sleep it is suspended at.  The function has no finally
\* block and offPriceUpdate is called nowhere.
streamClose(c) ==
    /\ load.server = "rpc"
    /\ connSt[c] = "live"
    /\ connSt' = [connSt EXCEPT ![c] = "closed"]
    /\ UNCHANGED <<load, polls, shows, listeners, offs, cleaning, listed, probe, found, browser, pages, priceCallbacks,
                   sseConnections, updateQueue, received, calls, ncalls, pageSt,
                   interval, hooked, lastPrice, retries, inflight, shown, clock>>

\* The callbacks of a caller: each is a closure of its own, numbered as it
\* is made; it returns or raises whenever it is invoked.
Handlers == 1..MaxHandlers
HandlersMade == UNION {{listeners[s][i].id : i \in DOMAIN listeners[s]} : s \in Symbols}
Registered(L, s, id) == \E i \in DOMAIN L[s] : L[s][i].id = id

\* onPriceUpdate(ticker, callback) with a new callback of the caller, who
\* registers its callbacks before it takes any off.
callerListens(s, raises) ==
    /\ offs.n = 0
    /\ Cardinality(HandlersMade) < MaxHandlers
    /\ listeners' = [listeners EXCEPT ![s] =
          Append(@, [id |-> Cardinality(HandlersMade) + 1, raises |-> raises, heard |-> <<>>])]
    /\ UNCHANGED <<load, polls, shows, offs, listed, probe, found, cleaning, browser, pages,
                   priceCallbacks, sseConnections, connSt, updateQueue, received, calls,
                   ncalls, pageSt, interval, hooked, lastPrice, retries, inflight,
                   shown, clock>>

\* offPriceUpdate with priceCallbacks.delete(ticker) in place of
\* callbacks.delete(callback).
offPriceUpdate_DeletesTicker(L, s, id) == [L EXCEPT ![s] = <<>>]

\* offPriceUpdate(ticker, callback): the callback leaves the ticker's Set;
\* a Set left empty is taken out of the Map, which an empty sequence
\* stands for as well.
offPriceUpdate(L, s, id) ==
    [L EXCEPT ![s] = SelectSeq(@, LAMBDA l : l.id # id)]

\* offPriceUpdate(ticker, callback) called with any ticker and any callback
\* of the caller, registered or not.
callerUnlistens(s, id) ==
    /\ offs.n < MaxOffs
    /\ listeners' = offPriceUpdate(listeners, s, id)
    /\ offs' = [n |-> offs.n + 1, kind |-> "callback", sym |-> s, id |-> id]
    /\ UNCHANGED <<load, polls, shows, listed, probe, found, cleaning, browser, pages,
                   priceCallbacks, sseConnections, connSt, updateQueue, received, calls,
                   ncalls, pageSt, interval, hooked, lastPrice, retries, inflight,
                   shown, clock>>

\* A 'close' or 'error' listener of the request of a stream runs:
\* sseConnections.delete(connection).  Both may run for one request, and
\* broadcastPriceUpdate may have dropped the connection before.
requestClosed(c) ==
    /\ load.server = "http"
    /\ offs.n < MaxOffs
    /\ connSt[c] \in {"broken", "destroyed", "closed"}
    /\ sseConnections' = deleteConnection(sseConnections, c)
    /\ connSt' = [connSt EXCEPT ![c] = "closed"]
    /\ offs' = [n |-> offs.n + 1, kind |-> "connection", sym |-> "none", id |-> c]
    /\ UNCHANGED <<load, polls, shows, listeners, listed, probe, found, cleaning, browser, pages,
                   priceCallbacks, updateQueue, received, calls, ncalls, pageSt,
                   interval, hooked, lastPrice, retries, inflight, shown, clock>>

\* The interval callback again, with each extraction followed from its
\* start to its end: extractPrice() reads the page at some moment after the
\* callback has started, and the callback goes on when the promise resolves;
\* of two extractions under way either may read first and either may
\* resolve first.

\* The watched page shows its next content.
pageChanges(s, p) ==
    /\ OpenPages(s) # {}
    /\ shown[s] # p
    /\ shows[s] < MaxShows
    /\ shown' = [shown EXCEPT ![s] = p]
    /\ shows' = [shows EXCEPT ![s] = @ + 1]
    /\ UNCHANGED <<load, polls, listeners, offs, listed, probe, found, cleaning, browser,
                   pages, priceCallbacks, sseConnections, connSt, updateQueue, received,
                   calls, ncalls, pageSt, interval, hooked, lastPrice, retries,
                   inflight, clock>>

\* The interval fires: the callback runs up to await extractPrice().
intervalFires(k) ==
    /\ interval[k]
    /\ Len(polls[k]) < MaxOverlap
    /\ polls' = [polls EXCEPT ![k] = Append(@, Unread)]
    /\ UNCHANGED <<load, shows, listeners, offs, listed, probe, found, cleaning, browser,
                   pages, priceCallbacks, sseConnections, connSt, updateQueue, received,
                   calls, ncalls, pageSt, interval, hooked, lastPrice, retries,
                   inflight, shown, clock>>

\* An extraction under way reads the page: the price it will return.
extractReads(k, i) ==
    /\ i \in DOMAIN polls[k]
    /\ polls[k][i].price = "unread"
    /\ polls' = [polls EXCEPT ![k][i] =
          [@ EXCEPT !.price = extractPrice(k), !.at = shows[TickerOf(k)]]]
    /\ UNCHANGED <<load, shows, listeners, offs, listed, probe, found, cleaning, browser,
                   pages, priceCallbacks, sseConnections, connSt, updateQueue, received,
                   calls, ncalls, pageSt, interval, hooked, lastPrice, retries,
                   inflight, shown, clock>>

Without(L, i) == SubSeq(L, 1, i - 1) \o SubSeq(L, i + 1, Len(L))
Newer(a, b) == IF a > b THEN a ELSE b

\* The callbacks still under way when the i-th of them has published: those
\* that started before it have a later callback's publication behind them.
Overtaken(L, i) ==
    Without([j \in DOMAIN L |->
                IF j < i THEN [L[j] EXCEPT !.behind = Newer(@, L[i].at)] ELSE L[j]], i)

\* The extractPrice() of an interval callback resolves with what it read,
\* and the callback runs to its end.
intervalExtracted(k, i) ==
    /\ i \in DOMAIN polls[k]
    /\ polls[k][i].price # "unread"
    /\ LET read == polls[k][i] IN
       IF shouldPublish(k, read.price) THEN
          /\ lastPrice' = [lastPrice EXCEPT ![k] = read.price]
          /\ notifyPriceUpdate(TickerOf(k), read.price)
          /\ polls' = [polls EXCEPT ![k] = Overtaken(@, i)]
       ELSE
          /\ NoNotify
          /\ UNCHANGED lastPrice
          /\ polls' = [polls EXCEPT ![k] = Without(@, i)]
    /\ UNCHANGED <<load, shows, offs, listed, probe, found, cleaning, browser, pages,
                   priceCallbacks, connSt, calls, ncalls, pageSt, interval, hooked,
                   retries, inflight, shown>>

\* cleanup's loop over this.pages comes to its next entry, or to its end.
\* The entries are taken in any order, and an entry set while the loop is
\* suspended is visited too.  After the last: pages.clear(),
\* priceCallbacks.clear(), and browser.close() is awaited.
cleanupSweep(swept) ==
    LET left == {s \in Symbols : pages[s] # NoPage /\ pages[s] \notin swept} IN
    IF left # {} THEN
       /\ \E s \in left :
             cleaning' = [pc |-> "page", page |-> pages[s], swept |-> swept \cup {pages[s]}]
       /\ UNCHANGED <<pages, priceCallbacks>>
    ELSE
       /\ pages' = [s \in Symbols |-> NoPage]
       /\ priceCallbacks' = [s \in Symbols |-> NoListeners]
       /\ cleaning' = [pc |-> "browser", page |-> NoPage, swept |-> swept]

\* SIGINT or SIGTERM: the handler installed by startServer (after
\* initialize) clears sseConnections on the SSE server and calls
\* scraper.cleanup(), which runs up to its first await.
cleanup ==
    /\ browser
    /\ cleaning.pc = "none"
    /\ sseConnections' = IF load.server = "http" THEN {} ELSE sseConnections
    /\ cleanupSweep({})
    /\ UNCHANGED <<load, polls, shows, listeners, offs, listed, probe, found, browser, connSt, updateQueue, received,
                   calls, ncalls, pageSt, interval, hooked, lastPrice, retries,
                   inflight, shown, clock>>

\* cleanup's await page.close() resolves (the page is closed and its
\* 'close' listener clears the interval) or raises, which the catch logs;
\* the loop goes on.
cleanupPageClosed ==
    /\ cleaning.pc = "page"
    /\ \E ok \in BOOLEAN :
          LET pg == cleaning.page IN
          /\ IF ok THEN
                /\ pageSt' = [pageSt EXCEPT ![pg] = "closed"]
                /\ interval' = [interval EXCEPT ![pg] =
                      IF hooked[pg] /\ pageSt[pg] = "open" THEN FALSE ELSE @]
                /\ shown' = shownWithout(pg)
             ELSE UNCHANGED <<pageSt, interval, shown>>
          /\ cleanupSweep(cleaning.swept)
    /\ UNCHANGED <<load, polls, shows, listeners, offs, listed, probe, found, browser, sseConnections, connSt,
                   updateQueue, received, calls, ncalls, hooked, lastPrice, retries,
                   inflight, clock>>

\* cleanup's await browser.close() resolves: every page of the browser is
\* closed, each with its 'close' event, and this.browser is set to null.
cleanupBrowserClosed ==
    /\ cleaning.pc = "browser"
    /\ pageSt' = [k \in Calls |-> IF pageSt[k] = "open" THEN "closed" ELSE pageSt[k]]
    /\ interval' = [k \in Calls |-> IF hooked[k] /\ pageSt[k] = "open" THEN FALSE ELSE interval[k]]
    /\ shown' = [s \in Symbols |-> NoPrice]
    /\ browser' = FALSE
    /\ cleaning' = [cleaning EXCEPT !.pc = "done"]
    /\ UNCHANGED <<load, polls, shows, listeners, offs, listed, probe, found, pages, priceCallbacks, sseConnections,
                   connSt, updateQueue, received, calls, ncalls, hooked, lastPrice,
                   retries, inflight, clock>>

\* One pass of the selector loop's body over a text: cleanPrice, then the
\* test that lets the price through.
cleanAndValidate ==
    /\ probe.kind = "text"
    /\ ~found.done
    /\ found' = [done |-> TRUE, price |-> selectorPrice(probe.text)]
    /\ UNCHANGED <<load, polls, shows, listeners, offs, cleaning, listed, probe, browser, pages, priceCallbacks, sseConnections,
                   connSt, updateQueue, received, calls, ncalls, pageSt, interval,
                   hooked, lastPrice, retries, inflight, shown, clock>>

\* One extractPrice() call on a page.
extract ==
    /\ probe.kind = "page"
    /\ ~found.done
    /\ found' = [done |-> TRUE, price |-> extractPriceOf(probe)]
    /\ UNCHANGED <<load, polls, shows, listeners, offs, cleaning, listed, probe, browser, pages, priceCallbacks, sseConnections,
                   connSt, updateQueue, received, calls, ncalls, pageSt, interval,
                   hooked, lastPrice, retries, inflight, shown, clock>>

CallStep ==
    \/ \E s \in load.tickers : addTicker(s)
    \/ \E s \in load.tickers : removeTicker(s)

Step ==
    \/ initialize
    \/ \E k \in Calls : addNavigated(k)
    \/ \E k \in Calls : addSettled(k)
    \/ \E k \in Calls : addNoContent(k)
    \/ \E k \in Calls : addContent(k)
    \/ \E k \in Calls : addExtracted(k)
    \/ \E k \in Calls : addBackedOff(k)
    \/ \E k \in Calls : removeClosed(k)
    \/ \E k \in Calls : tick(k)
    \/ \E k \in Calls : tickExtracted(k)
    \/ \E s \in load.tickers, p \in Prices \cup {NoPrice} : pageShows(s, p)
    \/ \E c \in Subs : sseConnect(c)
    \/ \E c \in Subs, st \in {"broken", "destroyed"} : sseFail(c, st)
    \/ \E c \in Subs : sseClose(c)
    \/ \E c \in Subs : streamPrices(c)
    \/ \E c \in Subs : streamYield(c)
    \/ \E c \in Subs : streamClose(c)
    \/ getTickers

Next == CallStep \/ Step

Spec == Init /\ [][Next]_vars

\* The same program driven by clients that wait for the response to one
\* call before they make the next.
SeqNext == (Idle /\ CallStep) \/ Step

SpecSeq == Init /\ [][SeqNext]_vars

\* The ConnectRPC server alone.  Its timers fire again and again, the awaits
\* of its calls and interval callbacks are resolved or rejected in the end,
\* and the loop of streamPrices takes its next turn after each sleep.
InitRpc == Init /\ load.server = "rpc"

RpcStep ==
    \/ initialize
    \/ \E k \in Calls : addNavigated(k)
    \/ \E k \in Calls : addSettled(k)
    \/ \E k \in Calls : addNoContent(k)
    \/ \E k \in Calls : addContent(k)
    \/ \E k \in Calls : addExtracted(k)
    \/ \E k \in Calls : addBackedOff(k)
    \/ \E k \in Calls : removeClosed(k)
    \/ \E k \in Calls : tick(k)
    \/ \E k \in Calls : tickExtracted(k)
    \/ \E s \in load.tickers, p \in Prices \cup {NoPrice} : pageShows(s, p)
    \/ \E c \in Subs : streamPrices(c)
    \/ \E c \in Subs : streamYield(c)
    \/ \E c \in Subs : streamClose(c)

NextRpc == CallStep \/ RpcStep

Resolves(k) ==
    \/ addNavigated(k)
    \/ addSettled(k)
    \/ addNoContent(k)
    \/ addContent(k)
    \/ addExtracted(k)
    \/ addBackedOff(k)
    \/ removeClosed(k)

Fairness ==
    /\ \A k \in Calls : WF_vars(Resolves(k))
    /\ \A k \in Calls : WF_vars(tick(k))
    /\ \A k \in Calls : WF_vars(tickExtracted(k))
    /\ \A c \in Subs : WF_vars(streamYield(c))

SpecRpcFair == InitRpc /\ [][NextRpc]_vars /\ Fairness

\* The SSE server when the process is signalled once, at any moment after
\* initialize: its clients add and remove tickers, at most MaxPending calls
\* at a time, before, during and after the shutdown.
ShutdownLoad ==
    [server |-> "http", tickers |-> Symbols, calls |-> MaxCalls - 1, subs |-> 0, lists |-> 0]

InitShutdown ==
    /\ load = ShutdownLoad
    /\ Started
    /\ probe = NoProbe
    /\ found = NotRun

ShutdownStep ==
    \/ initialize
    \/ \E k \in Calls : addNavigated(k)
    \/ \E k \in Calls : addSettled(k)
    \/ \E k \in Calls : addNoContent(k)
    \/ \E k \in Calls : addContent(k)
    \/ \E k \in Calls : addExtracted(k)
    \/ \E k \in Calls : addBackedOff(k)
    \/ \E k \in Calls : removeClosed(k)
    \/ \E k \in Calls : tick(k)
    \/ \E k \in Calls : tickExtracted(k)
    \/ \E s \in load.tickers, p \in Prices \cup {NoPrice} : pageShows(s, p)
    \/ cleanup
    \/ cleanupPageClosed
    \/ cleanupBrowserClosed

NextShutdown == CallStep \/ ShutdownStep

SpecShutdown == InitShutdown /\ [][NextShutdown]_vars

\* The listener table and the connection set under removals: the streams
\* of the SSE server connect and break, a caller of the class registers
\* callbacks, and callbacks and connections are removed, also twice and also
\* when they are not registered.  No ticker is added, so nothing is
\* published.
UnsubscribeLoad ==
    [server |-> "http", tickers |-> {}, calls |-> 0, subs |-> MaxSubs, lists |-> 0]

InitUnsubscribe ==
    /\ load = UnsubscribeLoad
    /\ Started
    /\ probe = NoProbe
    /\ found = NotRun

NextUnsubscribe ==
    \/ \E c \in Subs : sseConnect(c)
    \/ \E c \in Subs, st \in {"broken", "destroyed"} : sseFail(c, st)
    \/ \E c \in Subs : requestClosed(c)
    \/ \E s \in Symbols, raises \in BOOLEAN : callerListens(s, raises)
    \/ \E s \in Symbols, id \in Handlers : callerUnlistens(s, id)

SpecUnsubscribe == InitUnsubscribe /\ [][NextUnsubscribe]_vars

\* The TradingViewScraper class in the hands of a caller that registers
\* callbacks of its own with onPriceUpdate, any of which may raise; neither
\* of the two servers' handlers is in play.
ApiLoad ==
    [server |-> "api", tickers |-> {"BTCUSD"}, calls |-> MaxCalls - 1, subs |-> 0, lists |-> 0]

InitApi ==
    /\ load = ApiLoad
    /\ Started
    /\ probe = NoProbe
    /\ found = NotRun

ApiStep ==
    \/ initialize
    \/ \E k \in Calls : addNavigated(k)
    \/ \E k \in Calls : addSettled(k)
    \/ \E k \in Calls : addNoContent(k)
    \/ \E k \in Calls : addContent(k)
    \/ \E k \in Calls : addExtracted(k)
    \/ \E k \in Calls : addBackedOff(k)
    \/ \E k \in Calls : removeClosed(k)
    \/ \E k \in Calls : tick(k)
    \/ \E k \in Calls : tickExtracted(k)
    \/ \E s \in load.tickers, p \in Prices \cup {NoPrice} : pageShows(s, p)
    \/ \E s \in load.tickers, raises \in BOOLEAN : callerListens(s, raises)

NextApi == CallStep \/ ApiStep

SpecApi == InitApi /\ [][NextApi]_vars

\* One session whose interval callbacks overlap: a caller of the class
\* registers callbacks that do not raise and makes one call; the interval
\* fires while extractions are under way.
OverlapLoad ==
    [server |-> "api", tickers |-> {"BTCUSD"}, calls |-> 1, subs |-> 0, lists |-> 0]

InitOverlap ==
    /\ load = OverlapLoad
    /\ Started
    /\ probe = NoProbe
    /\ found = NotRun

OverlapStep ==
    \/ initialize
    \/ \E k \in Calls : addNavigated(k)
    \/ \E k \in Calls : addSettled(k)
    \/ \E k \in Calls : addNoContent(k)
    \/ \E k \in Calls : addContent(k)
    \/ \E k \in Calls : addExtracted(k)
    \/ \E k \in Calls : addBackedOff(k)
    \/ \E s \in load.tickers : callerListens(s, FALSE)
    \/ \E s \in load.tickers, p \in Prices \cup {NoPrice} : pageChanges(s, p)
    \/ \E k \in Calls : intervalFires(k)
    \/ \E k \in Calls, i \in 1..MaxOverlap : extractReads(k, i)
    \/ \E k \in Calls, i \in 1..MaxOverlap : intervalExtracted(k, i)

NextOverlap == CallStep \/ OverlapStep

SpecOverlap == InitOverlap /\ [][NextOverlap]_vars

\* The price extractor alone, on every text and page of the sets above; no
\* request reaches the server.
NoLoad == [server |-> "http", tickers |-> {}, calls |-> 0, subs |-> 0, lists |-> 0]

InitPrice ==
    /\ load = NoLoad
    /\ Started
    /\ probe \in TextProbes \cup PageProbes
    /\ found = NotRun

NextPrice == cleanAndValidate \/ extract

SpecPrice == InitPrice /\ [][NextPrice]_vars

\* ============================================================== claims

SessionPages(s) ==
    {j \in Calls : calls[j].op = "add" /\ calls[j].sym = s /\ calls[j].pc = "retTrue"
                   /\ pageSt[j] = "open"}
ArmedPages(s) == {j \in Calls : TickerOf(j) = s /\ interval[j]}

\* The last two calls of a client that waits for each response were add(s)
\* and add(s) again, and the first returned true.
AddThenAdd(k, s) ==
    /\ k + 1 \in Calls /\ ncalls = k + 1 /\ Idle
    /\ calls[k].op = "add" /\ calls[k + 1].op = "add"
    /\ calls[k].sym = s /\ calls[k + 1].sym = s
    /\ calls[k].pc = "retTrue"

\* C1: add(S) followed, after it has returned true, by add(S) again: the
\* second call returns true too and opens no page, and S then has exactly
\* one session: one entry in this.pages, whose page is the one open page of
\* a successful add(S) and the one page of S with an armed interval.
C1_SecondAddIsNoOp ==
    \A k \in Calls : \A s \in Symbols :
        AddThenAdd(k, s) =>
            /\ calls[k + 1].pc = "retTrue"
            /\ calls[k + 1].page = NoPage
            /\ pageSt[k + 1] = "none"
            /\ pages[s] # NoPage
            /\ SessionPages(s) = {pages[s]}
            /\ ArmedPages(s) = {pages[s]}

C1_Witness ==
    \E s \in Symbols : AddThenAdd(1, s) /\ calls[2].pc = "retTrue" /\ interval[1]

\* C2: at every moment a ticker has at most one open page and at most one
\* armed interval, and an open page with an armed interval is the one
\* this.pages holds for its ticker.
C2_OnePagePerTicker ==
    \A s \in Symbols :
        /\ Cardinality(OpenPages(s)) <= 1
        /\ Cardinality(ArmedPages(s)) <= 1
        /\ \A j \in OpenPages(s) \cap ArmedPages(s) : pages[s] = j

RemoveStarts(s) ==
    /\ ncalls' = ncalls + 1
    /\ calls'[ncalls'].op = "remove"
    /\ calls'[ncalls'].sym = s

\* C3: removeTicker(S) for a ticker with no entry in this.pages returns
\* false at once and changes no entry, page, interval or listener.
C3_RemoveUnknownIsNoOp ==
    [][\A s \in Symbols :
          (RemoveStarts(s) /\ pages[s] = NoPage) =>
              /\ calls'[ncalls'].pc = "retFalse"
              /\ UNCHANGED <<pages, pageSt, interval, hooked, lastPrice, inflight,
                             priceCallbacks, sseConnections, connSt, updateQueue,
                             received, browser, clock>>]_vars

C3_Witness ==
    \E k \in Calls : calls[k].op = "remove" /\ calls[k].pc = "retFalse"
                     /\ \E s \in Symbols : pages[s] # NoPage

\* C4: when addTicker(S) has returned false, nothing of that call is left:
\* its page is not in this.pages, is not open, and has no armed interval.
C4_FailedAddLeavesNothing ==
    \A k \in Calls :
        (calls[k].op = "add" /\ calls[k].pc = "retFalse") =>
            /\ pages[calls[k].sym] # k \/ calls[k].page = NoPage
            /\ pageSt[k] # "open"
            /\ ~interval[k]

\* The step is a notifyPriceUpdate made by page k's monitoring closure.
Publishes(k) == clock' = clock + 1 /\ lastPrice'[k] # lastPrice[k]
Published(k) == [ticker |-> TickerOf(k), price |-> lastPrice'[k], timestamp |-> clock']
NewFor(c) == SubSeq(received'[c], Len(received[c]) + 1, Len(received'[c]))
LiveConnections == {c \in sseConnections : connSt[c] = "live"}

\* C5: broadcastPriceUpdate writes the update to every connection of
\* sseConnections that is not destroyed and whose write does not raise, drops
\* every other connection from the set, and lets no error out: the
\* addTicker call or interval callback that published carries on.
C5_BroadcastIsolatesFailures ==
    [][\A k \in Calls :
          (Publishes(k) /\ priceCallbacks[TickerOf(k)].sse > 0) =>
              /\ \A c \in sseConnections :
                    IF connSt[c] = "live"
                    THEN /\ c \in sseConnections'
                         /\ Len(received'[c]) = Len(received[c]) + priceCallbacks[TickerOf(k)].sse
                         /\ SubSeq(received'[c], 1, Len(received[c])) = received[c]
                         /\ \A i \in 1..Len(NewFor(c)) : NewFor(c)[i] = Published(k)
                    ELSE /\ c \notin sseConnections'
                         /\ received'[c] = received[c]
              /\ sseConnections' \subseteq sseConnections
              /\ calls[k].pc = "boot" => calls'[k].pc = "retTrue"
              /\ interval'[k]]_vars

C5_Witness ==
    /\ connSt[1] = "live" /\ 1 \in sseConnections /\ Len(received[1]) = 2
    /\ connSt[2] \in {"broken", "destroyed"} /\ 2 \notin sseConnections
    /\ Len(received[2]) = 1
    /\ received[1][2].timestamp = 2

\* C6: when addTicker succeeds with a bootstrap price p, the update (S, p) is
\* published once and written once to every SSE connection that is live at
\* that moment, and a later tick that extracts the price last published
\* delivers nothing.
C6_BootstrapPriceIsDelivered ==
    [][\A k \in Calls :
          /\ (calls[k].pc = "boot" /\ calls'[k].pc = "retTrue" /\ lastPrice'[k] # NoPrice) =>
                /\ clock' = clock + 1
                /\ \A c \in LiveConnections : received'[c] = Append(received[c], Published(k))
          /\ (inflight'[k] < inflight[k] /\ extractPrice(k) = lastPrice[k]) =>
                /\ clock' = clock
                /\ received' = received
                /\ updateQueue' = updateQueue]_vars

\* C7: an interval callback publishes exactly when the price it extracted
\* is non-empty and differs from lastPrice; it then sets lastPrice to that
\* price in the same step, and otherwise leaves lastPrice and every
\* subscriber's stream as they were.
C7_TickPublishesIffChanged ==
    [][\A k \in Calls :
          inflight'[k] < inflight[k] =>
              IF extractPrice(k) # NoPrice /\ extractPrice(k) # lastPrice[k]
              THEN /\ clock' = clock + 1
                   /\ lastPrice'[k] = extractPrice(k)
                   /\ \A c \in LiveConnections :
                         priceCallbacks[TickerOf(k)].sse > 0 =>
                             received'[c][Len(received'[c])] =
                                 [ticker |-> TickerOf(k), price |-> extractPrice(k),
                                  timestamp |-> clock + 1]
              ELSE /\ clock' = clock
                   /\ lastPrice'[k] = lastPrice[k]
                   /\ received' = received
                   /\ updateQueue' = updateQueue]_vars

C7_Witness ==
    /\ ncalls = 1 /\ calls[1].pc = "retTrue" /\ interval[1]
    /\ clock = 2 /\ lastPrice[1] = "100.01"
    /\ \E c \in Subs : Len(received[c]) = 1 /\ received[c][1].price = "100.01"

\* C8: an update for S is delivered to a subscriber only while S has an entry
\* in this.pages.
C8_DeliveryOnlyWhileActive ==
    [][\A c \in Subs :
          Len(received'[c]) > Len(received[c]) =>
              pages[received'[c][Len(received'[c])].ticker] # NoPage]_vars

\* C9: once removeTicker(S) has returned true and S has no entry in
\* this.pages (and no addTicker(S) is under way), no page of S has an armed
\* interval.
C9_RemovedTickerHasNoInterval ==
    \A s \in Symbols :
        ( /\ \E r \in Calls : calls[r].op = "remove" /\ calls[r].sym = s /\ calls[r].pc = "retTrue"
          /\ pages[s] = NoPage
          /\ \A j \in Pending : calls[j].sym # s )
        => ArmedPages(s) = {}

\* C10: every subscriber, on the SSE stream and on the queued stream alike,
\* is handed the updates of one ticker in the order of their publication
\* (the order of their timestamps).
C10_FifoPerTicker ==
    \A c \in Subs : \A i, j \in 1..Len(received[c]) :
        (i < j /\ received[c][i].ticker = received[c][j].ticker) =>
            received[c][i].timestamp <= received[c][j].timestamp

C10_Witness ==
    \E c \in Subs :
        /\ load.server = "rpc"
        /\ Len(received[c]) = 2
        /\ received[c][1].ticker = received[c][2].ticker
        /\ received[c][1].timestamp < received[c][2].timestamp

Ascending(L) == \A i, j \in 1..Len(L) : i < j => Rank(L[i]) < Rank(L[j])
Listing == listed'.n = listed.n + 1

\* C11: the list that a ticker-list request returns holds exactly the tickers
\* that have an entry in this.pages at that moment, each once and in
\* ascending order; with no add or remove under way these are exactly the
\* tickers that have an open page of a successful add.  Listing changes no
\* entry, and a later add or remove leaves the returned list as it was.
C11_ListIsSortedSnapshot ==
    [][/\ Listing =>
             /\ Ascending(listed'.tickers)
             /\ {listed'.tickers[i] : i \in 1..Len(listed'.tickers)} = activeTickers
             /\ Idle => activeTickers = {s \in Symbols : SessionPages(s) # {}}
             /\ UNCHANGED <<pages, pageSt, interval, priceCallbacks>>
       /\ pages' # pages => listed' = listed]_vars

C11_Witness ==
    /\ listed.n = 1
    /\ listed.tickers = <<"BTCUSD", "ETHUSD">>
    /\ calls[1].sym = "ETHUSD" /\ calls[1].op = "add"

\* C12: every update that an interval callback publishes reaches every live
\* subscriber, whenever the subscriber connected and whenever the ticker was
\* added: it is written to the SSE connection, or pushed on the stream's
\* updateQueue.
C12_SubscriptionReceivesEverySymbol ==
    [][\A k \in Calls :
          (inflight'[k] < inflight[k] /\ clock' = clock + 1) =>
              \A c \in Subs :
                  connSt[c] = "live" =>
                      IF load.server = "rpc"
                      THEN updateQueue'[c] = Append(updateQueue[c], Published(k))
                      ELSE c \in sseConnections =>
                              /\ Len(received'[c]) > Len(received[c])
                              /\ received'[c][Len(received'[c])] = Published(k)]_vars

\* C13: once the server has seen a subscriber go, nothing of the subscriber
\* is registered: it is not in sseConnections and no ticker's callback set
\* holds a listener of its stream; listeners belong to live streams only.
C13_DisconnectDestroysSubscription ==
    \A c \in Subs :
        /\ connSt[c] = "closed" => c \notin sseConnections
        /\ \A s \in Symbols : c \in priceCallbacks[s].rpc => connSt[c] = "live"

\* The step starts an addTicker(s) call that finds s in this.pages.
DuplicateAdd(s) ==
    /\ ncalls' = ncalls + 1
    /\ calls'[ncalls'].op = "add"
    /\ calls'[ncalls'].sym = s
    /\ pages[s] # NoPage

\* C14: an add of a ticker that is already active leaves the ticker's
\* listeners as they were, and no publication is written to a live
\* connection more than once.
C14_DuplicateAddKeepsOneDelivery ==
    [][/\ \A s \in Symbols : DuplicateAdd(s) => priceCallbacks'[s] = priceCallbacks[s]
       /\ \A k \in Calls : \A c \in LiveConnections :
             Publishes(k) => Len(received'[c]) <= Len(received[c]) + 1]_vars

\* The number a text denotes, if it denotes one, read generously: white
\* space around it, a currency glyph before or after it, a minus sign, then
\* nothing but digits, commas between or around them and at most one
\* point, with a digit somewhere.
Denoted(text) ==
    LET t == trim(text)
        u == IF t # <<>> /\ Head(t) = "$" THEN Tail(t)
             ELSE IF t # <<>> /\ t[Len(t)] = "$" THEN SubSeq(t, 1, Len(t) - 1)
             ELSE t
        neg == u # <<>> /\ Head(u) = "-"
        body == SelectSeq(IF neg THEN Tail(u) ELSE u, NotComma)
        int == digitsPrefix(body)
        rest == SubSeq(body, Len(int) + 1, Len(body))
        frac == IF rest # <<>> THEN Tail(rest) ELSE <<>>
    IN [nan |-> ~ /\ int # <<>> \/ frac # <<>>
                  /\ \/ rest = <<>>
                     \/ Head(rest) = "." /\ \A i \in 1..Len(frac) : IsDigit(frac[i]),
        neg |-> neg,
        int |-> int,
        frac |-> frac]

Plausible(v) == ~v.nan /\ aboveThousandth(v) /\ belowMillion(v)

\* C15: cleaning followed by the validity test lets a text through exactly
\* when the text denotes a number v with 0.001 < v < 1000000; "$1,234.56"
\* comes out as "1234.56", and "-5" and "2000000" are turned down.
C15_AcceptsExactlyPlausibleNumbers ==
    (probe.kind = "text" /\ found.done) =>
        /\ (found.price # NoText) <=> Plausible(Denoted(probe.text))
        /\ probe.text = <<"$", "1", ",", "2", "3", "4", ".", "5", "6">> =>
               found.price = <<"1", "2", "3", "4", ".", "5", "6">>
        /\ probe.text = <<"-", "5">> => found.price = NoText
        /\ probe.text = <<"2", "0", "0", "0", "0", "0", "0">> => found.price = NoText

\* The selectors of the probed page, in list order, whose text cleans to a
\* valid price.
Hits == {i \in 1..Len(probe.selectors) : selectorPrice(probe.selectors[i]) # NoText}
FirstHit == CHOOSE i \in Hits : \A j \in Hits : i <= j

\* C20: extractPrice() never raises; what it returns is null or a price that
\* isValidPrice accepts.  It is the cleaned text of the first selector that
\* has a valid one (a selector that raises is passed over); failing that,
\* the result of the salience scan if valid; failing that, the result of the
\* full-text scan if valid; and null otherwise, in particular when one of
\* the two scans raises.
C20_ExtractTriesStrategiesInOrder ==
    (probe.kind = "page" /\ found.done) =>
        /\ found.price # Throws
        /\ found.price # NoText => isValidPrice(found.price)
        /\ Hits # {} => found.price = selectorPrice(probe.selectors[FirstHit])
        /\ (Hits = {} /\ evaluated(probe.scan)) => found.price = probe.scan
        /\ (Hits = {} /\ probe.scan = Throws) => found.price = NoText
        /\ (Hits = {} /\ probe.scan # Throws /\ ~evaluated(probe.scan)) =>
               /\ evaluated(probe.fallback) => found.price = probe.fallback
               /\ ~evaluated(probe.fallback) => found.price = NoText

C20_Witness ==
    /\ probe.kind = "page" /\ found.done
    /\ probe.selectors[1] = Throws
    /\ probe.selectors[2] = <<"2", "0", "0", "0", "0", "0", "0">>
    /\ probe.scan = <<"0", ",", "5", "0", "0">>
    /\ probe.fallback = <<"1", "2", "3", "4", ".", "5", "6">>
    /\ found.price = probe.fallback

\* The step is one of an addTicker(s) or removeTicker(s) call or of an
\* interval callback of a page of s.
ActsOn(s) ==
    \E k \in Calls :
        /\ calls'[k].sym = s
        /\ calls'[k] # calls[k] \/ inflight'[k] # inflight[k]

\* C16: a step of add(S), of remove(S) or of a poll tick of S, whether it
\* succeeds or fails, leaves every other ticker T as it was: T's entry in
\* this.pages, T's listeners, and of every page of T whether it is open,
\* whether its interval is armed, its lastPrice and its extractions under
\* way.
C16_OtherSymbolsUntouched ==
    [][\A s, u \in Symbols :
          (s # u /\ ActsOn(s)) =>
              /\ pages'[u] = pages[u]
              /\ priceCallbacks'[u] = priceCallbacks[u]
              /\ \A j \in Calls :
                    TickerOf(j) = u =>
                        /\ calls'[j] = calls[j]
                        /\ pageSt'[j] = pageSt[j]
                        /\ interval'[j] = interval[j]
                        /\ hooked'[j] = hooked[j]
                        /\ lastPrice'[j] = lastPrice[j]
                        /\ inflight'[j] = inflight[j]]_vars

C16_Witness ==
    /\ calls[1] = [op |-> "add", sym |-> "ETHUSD", pc |-> "retTrue", page |-> 1]
    /\ calls[2].op = "add" /\ calls[2].sym = "BTCUSD" /\ calls[2].pc = "retTrue"
    /\ calls[3].op = "remove" /\ calls[3].sym = "BTCUSD" /\ calls[3].pc = "retTrue"
    /\ pages["ETHUSD"] = 1 /\ pageSt[1] = "open" /\ interval[1]
    /\ lastPrice[1] # NoPrice
    /\ priceCallbacks["ETHUSD"].sse = 1

Delivered(c, s, p) ==
    \E i \in 1..Len(received[c]) : received[c][i].ticker = s /\ received[c][i].price = p

\* Page k is the session of s, it shows p, which its closure has not
\* published last, and c is a live subscriber.
Awaits(c, k, s, p) ==
    /\ connSt[c] = "live"
    /\ calls[k].op = "add" /\ calls[k].sym = s /\ calls[k].pc = "retTrue"
    /\ pages[s] = k /\ pageSt[k] = "open" /\ interval[k]
    /\ shown[s] = p /\ lastPrice[k] # p
    /\ clock < MaxClock

\* C17: when the page of an active session shows a price p that is not the
\* one last published, and the page keeps showing p, the session is not
\* removed and the subscriber stays connected, then (S, p) is delivered to
\* the subscriber in the end.  (A run that has handed out MaxClock
\* timestamps is let off.)
C17_ChangeIsEventuallyDelivered ==
    \A c \in Subs : \A k \in Calls : \A s \in Symbols : \A p \in Prices :
        Awaits(c, k, s, p) ~>
            \/ Delivered(c, s, p)
            \/ connSt[c] # "live"
            \/ pages[s] # k
            \/ shown[s] # p
            \/ clock >= MaxClock

\* C18: the bootstrap makes its attempts one after the other, each miss
\* counted in retries, and no attempt is made once 5 have missed.  When the
\* fifth has missed, addTicker returns true with the ticker in this.pages,
\* its page open, the interval armed, no lastPrice and nothing published;
\* the first interval callback that then extracts a price publishes it.
C18_BootstrapIsBounded ==
    [][\A k \in Calls :
          /\ retries[k] <= maxRetries
          /\ calls[k].pc = "boot" => retries[k] < maxRetries
          /\ (calls[k].pc = "boot" /\ calls'[k].pc = "backoff") => retries'[k] = retries[k] + 1
          /\ (calls[k].pc = "backoff" /\ calls'[k].pc = "boot") => retries'[k] = retries[k]
          /\ (calls[k].pc = "backoff" /\ calls'[k].pc = "retTrue") =>
                /\ retries[k] = maxRetries
                /\ lastPrice'[k] = NoPrice
                /\ UNCHANGED <<clock, received, updateQueue>>
                /\ pages'[calls[k].sym] = k
                /\ pageSt'[k] = "open"
                /\ interval'[k]
          /\ (inflight'[k] < inflight[k] /\ lastPrice[k] = NoPrice /\ extractPrice(k) # NoPrice) =>
                /\ clock' = clock + 1
                /\ lastPrice'[k] = extractPrice(k)]_vars

\* The one add of the run published nothing at its bootstrap (on the SSE
\* server an update published there reaches no connection), and a later
\* interval callback published the first price, which a connection received.
C18_Witness ==
    /\ load.server = "http"
    /\ ncalls = 1 /\ calls[1].pc = "retTrue" /\ interval[1]
    /\ clock = 1 /\ lastPrice[1] # NoPrice
    /\ \E c \in Subs : Len(received[c]) = 1 /\ received[c][1].timestamp = 1

\* C19: an interval callback whose extraction yields no price (nothing
\* valid on the page, or a page operation raised) publishes nothing and
\* changes nothing but its own end: lastPrice, the entry in this.pages, the
\* listeners and the armed interval are as before, so the next tick finds
\* the session as this one did.
C19_MissedTickChangesNothing ==
    [][\A k \in Calls :
          (inflight'[k] < inflight[k] /\ extractPrice(k) = NoPrice) =>
              /\ inflight'[k] = inflight[k] - 1
              /\ UNCHANGED <<clock, received, updateQueue, sseConnections, lastPrice,
                             pages, priceCallbacks, interval, hooked, pageSt, calls>>]_vars

\* An interval callback of an active session that has published a price is
\* suspended in an extraction that comes back empty.
C19_Witness ==
    \E k \in Calls :
        /\ calls[k].pc = "retTrue" /\ pages[calls[k].sym] = k
        /\ interval[k] /\ inflight[k] = 1
        /\ lastPrice[k] # NoPrice /\ clock = 2
        /\ pageSt[k] = "open" /\ shown[calls[k].sym] = NoPrice

\* Nothing of any session is left: no page is open, this.pages and
\* priceCallbacks are empty, no interval is armed and the ticker list is
\* the empty one.
NothingLeft ==
    /\ \A k \in Calls : pageSt[k] # "open" /\ ~interval[k]
    /\ \A s \in Symbols : pages[s] = NoPage /\ priceCallbacks[s] = NoListeners
    /\ \A keys \in pagesKeys : getActiveTickers(keys) = <<>>

AddStarts(s) ==
    /\ ncalls' = ncalls + 1
    /\ calls'[ncalls'].op = "add"
    /\ calls'[ncalls'].sym = s

\* C21: when cleanup has finished, every page is closed (also one whose
\* page.close() raised), this.pages and priceCallbacks are empty, no
\* interval is armed and the ticker list is empty; every addTicker call
\* made after that, like one made before initialize, returns false at once
\* and opens no page and changes nothing.
C21_ShutdownLeavesNothing ==
    [][/\ cleaning'.pc = "done" => NothingLeft'
       /\ \A s \in Symbols :
             (AddStarts(s) /\ (cleaning.pc = "done" \/ (~browser /\ cleaning.pc = "none"))) =>
                 /\ calls'[ncalls'].pc = "retFalse"
                 /\ calls'[ncalls'].page = NoPage
                 /\ UNCHANGED <<pages, pageSt, interval, hooked, lastPrice, inflight,
                                priceCallbacks, browser, clock, received>>]_vars

\* The callbacks of a ticker other than the one named, as registered.
OtherCallbacks(L, s, id) == SelectSeq(L[s], LAMBDA l : l.id # id)
Removal == offs'.n = offs.n + 1

\* C22: taking a registered callback off a ticker, or a registered
\* connection out of sseConnections, removes that one and leaves every other
\* callback (of this ticker, in its order, and of every other ticker) and
\* every other connection registered; when it is not registered (taken off
\* before, dropped before, never registered, or registered for another
\* ticker) the removal changes nothing.
C22_UnsubscribeIsIdempotent ==
    [][Removal =>
          LET s == offs'.sym
              id == offs'.id IN
          IF offs'.kind = "callback" THEN
             /\ ~Registered(listeners', s, id)
             /\ Len(listeners'[s]) = Len(listeners[s]) - (IF Registered(listeners, s, id) THEN 1 ELSE 0)
             /\ listeners'[s] = OtherCallbacks(listeners, s, id)
             /\ \A u \in Symbols \ {s} : listeners'[u] = listeners[u]
             /\ ~Registered(listeners, s, id) => listeners' = listeners
             /\ UNCHANGED <<sseConnections, priceCallbacks>>
          ELSE
             /\ id \notin sseConnections'
             /\ \A d \in sseConnections : d # id => d \in sseConnections'
             /\ sseConnections' \subseteq sseConnections
             /\ id \notin sseConnections => sseConnections' = sseConnections
             /\ UNCHANGED <<listeners, priceCallbacks>>]_vars

\* Four removals have been made, the last one of a connection that was
\* removed before; of two callbacks of one ticker and of two connected
\* streams one each is left.
C22_Witness ==
    /\ offs = [n |-> 4, kind |-> "connection", sym |-> "none", id |-> 1]
    /\ Len(listeners["BTCUSD"]) = 1 /\ listeners["BTCUSD"][1].id = 2
    /\ Len(listeners["ETHUSD"]) = 0
    /\ connSt[1] = "closed" /\ sseConnections = {2}

\* addTicker call k is suspended in its navigation, its settle delay, its
\* readiness wait or a bootstrap backoff.
Suspended(k) ==
    calls[k].op = "add" /\ calls[k].pc \in {"nav", "settle", "ready", "backoff"}

\* The bounds of the run leave room for one more call that registers a
\* listener, and for one more publication.
RoomForCall == MayCall /\ \A s \in Symbols : priceCallbacks[s].sse < MaxListeners
RoomForUpdate == clock < MaxClock

\* C23: while an addTicker call is suspended at one of its awaits, nothing
\* of another ticker waits for it: an armed interval of another ticker can
\* fire, a callback of it whose extraction is under way can take its result
\* and publish, a call for another ticker can start, and a suspended call
\* for another ticker can take its next step.
C23_SuspendedAddBlocksNothing ==
    \A k \in Calls :
        Suspended(k) =>
            /\ \A j \in Calls :
                  (TickerOf(j) # TickerOf(k) /\ interval[j]) =>
                      /\ inflight[j] < MaxInflight => ENABLED tick(j)
                      /\ (inflight[j] > 0 /\ RoomForUpdate) => ENABLED tickExtracted(j)
            /\ \A s \in load.tickers \ {TickerOf(k)} :
                  RoomForCall => (ENABLED addTicker(s) /\ ENABLED removeTicker(s))
            /\ \A j \in Pending :
                  (TickerOf(j) # TickerOf(k) /\ RoomForCall /\ RoomForUpdate) =>
                      ENABLED Resolves(j)

\* While add(ETHUSD), the first call of the run, is still in its navigation,
\* add(BTCUSD) has succeeded, its session has published twice (the second
\* update from an interval callback) and remove(BTCUSD) has returned true.
C23_Witness ==
    /\ calls[1] = [op |-> "add", sym |-> "ETHUSD", pc |-> "nav", page |-> 1]
    /\ calls[2] = [op |-> "add", sym |-> "BTCUSD", pc |-> "retTrue", page |-> 2]
    /\ calls[3] = [op |-> "remove", sym |-> "BTCUSD", pc |-> "retTrue", page |-> 2]
    /\ clock = 2 /\ lastPrice[2] # NoPrice

\* C24: when an update for a ticker is published, every callback registered
\* for the ticker at that moment is invoked with it, whether or not a
\* callback invoked before it raises; and an addTicker call that publishes
\* its bootstrap price returns true.
C24_RaisingListenerIsIsolated ==
    [][\A k \in Calls :
          Publishes(k) =>
              /\ \A i \in DOMAIN listeners[TickerOf(k)] :
                    listeners'[TickerOf(k)][i].heard =
                        Append(listeners[TickerOf(k)][i].heard, Published(k))
              /\ calls[k].pc = "boot" => calls'[k].pc = "retTrue"]_vars

\* The updates that a callback registered for ticker s has been invoked with.
Heard(s, i) == listeners[s][i].heard

\* C25: of the updates that the one session of a ticker publishes, as a
\* callback registered for the ticker hears them, no two that follow each
\* other carry the same price, however the extractions of its interval
\* callbacks overlap; and each publication leaves lastPrice at the price
\* published.
C25_ConsecutivePricesDiffer ==
    \A s \in Symbols : \A i \in DOMAIN listeners[s] :
        /\ \A j \in 1..(Len(Heard(s, i)) - 1) : Heard(s, i)[j].price # Heard(s, i)[j + 1].price
        /\ \A k \in Calls :
              (pages[s] = k /\ Heard(s, i) # <<>> /\ Heard(s, i)[Len(Heard(s, i))].timestamp = clock)
                  => lastPrice[k] = Heard(s, i)[Len(Heard(s, i))].price

\* A callback has heard two updates of the session.  Two interval
\* callbacks overlapped and both read the second price: the one that started
\* later has published it, the other is still under way with the price that
\* is now lastPrice.
C25_Witness ==
    /\ Len(listeners["BTCUSD"]) = 1 /\ Len(Heard("BTCUSD", 1)) = 2
    /\ Len(polls[1]) = 1
    /\ polls[1][1].price = lastPrice[1]
    /\ polls[1][1].behind = polls[1][1].at /\ polls[1][1].at > 0
    /\ Heard("BTCUSD", 1)[2].price = lastPrice[1]

\* The step is the publication of the i-th interval callback under way of
\* page k.
PublishedBy(k, i) ==
    /\ i \in DOMAIN polls[k]
    /\ clock' = clock + 1
    /\ polls'[k] = Overtaken(polls[k], i)
    /\ lastPrice'[k] = polls[k][i].price

\* C26: the prices that a session publishes follow the order in which its
\* page showed them: an interval callback never publishes a price read from
\* a content of the page that is older than one which a callback started
\* after it has published a price from already.
C26_PublishedInPageOrder ==
    [][\A k \in Calls : \A i \in 1..MaxOverlap :
          PublishedBy(k, i) => polls[k][i].at >= polls[k][i].behind]_vars

\* Call r was remove(s) and returned true, and call a, made after it, is
\* add(s) on a page of its own.
ReAdded(r, a, s) ==
    /\ r < a
    /\ calls[r].op = "remove" /\ calls[r].sym = s /\ calls[r].pc = "retTrue"
    /\ calls[a].op = "add" /\ calls[a].sym = s /\ calls[a].page = a

\* C27: an add(S) made after remove(S) has returned true starts a session of
\* its own.  Its lastPrice is empty until its own first extraction finds a
\* price, and that price is published whatever the removed session
\* published last.  The removed session's page is closed, its interval is
\* cleared and it is not the page of S in this.pages; no callback of it
\* publishes or assigns again; and the add finds no listener of S left when
\* it starts.
C27_ReAddStartsAfresh ==
    [][\A s \in Symbols : \A r, a \in Calls :
          /\ ReAdded(r, a, s) =>
                /\ calls[a].pc \in {"nav", "settle", "ready", "boot", "backoff"} =>
                       lastPrice[a] = NoPrice
                /\ (calls[a].pc = "boot" /\ calls'[a].pc # "boot" /\ extractPrice(a) # NoPrice) =>
                       /\ clock' = clock + 1
                       /\ lastPrice'[a] = extractPrice(a)
                       /\ calls'[a].pc = "retTrue"
                /\ (inflight'[a] < inflight[a] /\ lastPrice[a] = NoPrice
                    /\ extractPrice(a) # NoPrice) =>
                       /\ clock' = clock + 1
                       /\ lastPrice'[a] = extractPrice(a)
                /\ LET old == calls[r].page IN
                   /\ pageSt[old] = "closed" /\ ~interval[old] /\ pages[s] # old
                   /\ lastPrice'[old] = lastPrice[old]
                   /\ inflight'[old] < inflight[old] => clock' = clock
          /\ (AddStarts(s) /\ pages[s] = NoPage
              /\ \E q \in Calls : calls[q].op = "remove" /\ calls[q].sym = s
                                  /\ calls[q].pc = "retTrue") =>
                priceCallbacks[s] = NoListeners /\ priceCallbacks'[s] = NoListeners]_vars

\* add(BTCUSD), remove(BTCUSD) and add(BTCUSD) again have all returned true;
\* the new session has published the price that the removed one published
\* last, and the removed one's page is closed and its interval cleared.
C27_Witness ==
    /\ calls[1] = [op |-> "add", sym |-> "BTCUSD", pc |-> "retTrue", page |-> 1]
    /\ calls[2] = [op |-> "remove", sym |-> "BTCUSD", pc |-> "retTrue", page |-> 1]
    /\ calls[3] = [op |-> "add", sym |-> "BTCUSD", pc |-> "retTrue", page |-> 3]
    /\ lastPrice[1] # NoPrice /\ lastPrice[3] = lastPrice[1]
    /\ clock = 2
    /\ pageSt[1] = "closed" /\ ~interval[1] /\ interval[3] /\ pages["BTCUSD"] = 3

====
